---- MODULE Spec2Model ----
(***************************************************************************)
(* FetchWrapper: a fetch() wrapper with a per-attempt timeout, a retry     *)
(* loop and request/response interceptors.                                 *)
(*                                                                         *)
(* The repository holds three versions of the FetchWrapper class and the   *)
(* InterceptorManager class:                                               *)
(*   "legacy" : src/unnamed/part_000:24-230  (applyInterceptors, the       *)
(*              not-ok check and the rejected scan in request's catch)     *)
(*   "index"  : src/index.ts                 (InterceptorManager chains)   *)
(*   "json"   : src/unnamed/part_000:267-418 (index + autoParseJSON)       *)
(* The variable `variant` says which class the instance was built from.    *)
(***************************************************************************)
EXTENDS Integers, Sequences, FiniteSets, TLC

\* ------------------------------------------------------------------ bounds
MaxRetries == 2            \* largest retries value drawn in SpecRetry
MaxRequestHandlers == 1    \* request interceptors registered in Spec
MaxResponseHandlers == 2   \* response interceptors registered in Spec
MaxChainHandlers == 3      \* interceptors registered per chain in SpecChain
MaxCalls == 2              \* request calls made on one instance in SpecCalls
NumFns == 2                \* distinct fulfilled functions registered in SpecChain

\* ------------------------------------------------------- program constants
DefaultTimeout == 5000
DefaultRetryInterval == 1000
DefaultRetriesLegacy == 3
DefaultRetriesJson == 0
MsPerSecond == 1000

Variants == {"legacy", "index", "json"}

\* An optional field: <<>> is undefined, <<v>> is the value v.
None == <<>>
Some(v) == <<v>>

\* `x !== undefined ? x : d`
Resolve(x, d) == IF x # None THEN x[1] ELSE d

\* `x || d` on a number: undefined and 0 are falsy
OrDefault(x, d) == IF x # None /\ x[1] # 0 THEN x[1] ELSE d

\* `x || d` on a string: undefined and the empty string are falsy
OrDefaultStr(x, d) == IF x # None /\ x[1] # "" THEN x[1] ELSE d

\* NaN, the result of parseInt on a string that starts with no digit
NaN == 0 - 1

Digits == <<"0", "1", "2", "3", "4", "5", "6", "7", "8", "9">>
IsDigit(c) == \E d \in 1..10 : Digits[d] = c
DigitVal(c) == (CHOOSE d \in 1..10 : Digits[d] = c) - 1

\* parseInt(s, 10) on a string without sign or leading blanks: the value of
\* the longest prefix of digits, NaN when that prefix is empty.
RECURSIVE ParseDigits(_, _)
ParseDigits(s, acc) ==
  IF s = <<>> \/ ~IsDigit(Head(s)) THEN acc
  ELSE ParseDigits(Tail(s), acc * 10 + DigitVal(Head(s)))
ParseInt(s) == IF s = <<>> \/ ~IsDigit(Head(s)) THEN NaN ELSE ParseDigits(s, 0)

\* Response.ok
Ok(status) == status >= 200 /\ status < 300

\* response.json(): the decoded value, None when the body is no JSON text
JsonDecode(body) ==
  CASE body = "{\"a\":1}" -> Some("object a=1")
    [] body = "[]" -> Some("empty array")
    [] OTHER -> None

\* ------------------------------------------------------------------ inputs
\* What the transport can answer: a status and a Retry-After header.
Wire(status, ra) == [status |-> status, ra |-> ra]
WireResponses ==
  {Wire(200, None), Wire(404, None), Wire(429, None), Wire(429, Some(<<"2">>)),
   Wire(429, Some(<<"W", "e", "d">>)), Wire(500, None), Wire(503, Some(<<"2">>))}
FewWireResponses == {Wire(200, None), Wire(404, None), Wire(503, None)}
Bodies == {"{\"a\":1}", "oops"}
BoolInputs == {None, Some(TRUE), Some(FALSE)}

\* ------------------------------------------------------------------ values
\* Every value that flows through a chain or settles a call has one shape of
\* record; `shape` says what it is.
Val(shape, tags, status, ra, body, att) ==
  [shape |-> shape, tags |-> tags, status |-> status, ra |-> ra,
   body |-> body, att |-> att]
NoVal == Val("none", <<>>, 0, None, "", 0)
RequestContext == Val("request", <<>>, 0, None, "", 0)
ResponseValue(status, ra, body, att) == Val("response", <<>>, status, ra, body, att)
\* what a rejected handler returned: an object, or undefined
Returned(kind, by) == Val(kind, <<>>, 0, None, "", by)
Decoded(text, v) == Val("decoded", v.tags, v.status, v.ra, text, v.att)

\* An error: kind names the message, n the number it carries.
Err(kind, n) == [kind |-> kind, n |-> n]
NoErr == Err("none", 0)
TimedOut == Err("Request timed out", 0)
NotOk == Err("Network response was not ok", 0)
MaxRetriesExceeded == Err("Maximum retries exceeded", 0)
TypeError == Err("TypeError", 0)
\* what fetch rejects with: its signal was aborted / the network failed
AbortError == Err("AbortError", 0)
NetworkError == Err("Failed to fetch", 0)
SyntaxError == Err("SyntaxError", 0)
HandlerError(fn) == Err("fulfilled raised", fn)
RejectedError(k) == Err("rejected raised", k)

Resolved(v) == [kind |-> "resolved", val |-> v, err |-> NoErr]
Rejected(e) == [kind |-> "rejected", val |-> NoVal, err |-> e]
Pending == [kind |-> "pending", val |-> NoVal, err |-> NoErr]

VARIABLES
  variant,    \* which FetchWrapper class
  config,     \* the instance fields set by the constructor
  handlers,   \* [request |-> entries, response |-> entries], registration order
  op,         \* the public call in progress: "none", "request", "runHandlers"
  options,    \* the options object of the call
  pc,         \* where the call is suspended
  call,       \* the call's locals: the resolved settings, the loop's i and interval
  fold,       \* the chain in progress: which chain, the entry, the value, the error caught
  net,        \* timers pending, controllers aborted, options.signal, attempts issued
  hist,       \* the outcome of every attempt, in order
  waits,      \* the backoff waits, in order
  calls,      \* every handler invocation, in order
  raises,     \* every error a handler raised, in order
  used,       \* the entries passed to use(), per chain, in call order
  outcome,    \* how the call settled
  given,      \* what was passed in: the constructor's config, request's options,
              \* and the handler lists as they stood when the call was made
  prev,       \* the record of the instance's previous request call
  other       \* a second call on the instance, suspended while this one runs

vars == <<variant, config, handlers, op, options, pc, call, fold, net, hist,
          waits, calls, raises, used, outcome, given, prev, other>>

\* The state as one record, so that a handler's steps compose as functions.
Cur ==
  [variant |-> variant, config |-> config, handlers |-> handlers, op |-> op,
   options |-> options, pc |-> pc, call |-> call, fold |-> fold, net |-> net,
   hist |-> hist, waits |-> waits, calls |-> calls, raises |-> raises,
   used |-> used, outcome |-> outcome, given |-> given, prev |-> prev,
   other |-> other]

Becomes(s) ==
  /\ variant' = s.variant
  /\ config' = s.config
  /\ handlers' = s.handlers
  /\ op' = s.op
  /\ options' = s.options
  /\ pc' = s.pc
  /\ call' = s.call
  /\ fold' = s.fold
  /\ net' = s.net
  /\ hist' = s.hist
  /\ waits' = s.waits
  /\ calls' = s.calls
  /\ raises' = s.raises
  /\ used' = s.used
  /\ outcome' = s.outcome
  /\ given' = s.given
  /\ prev' = s.prev
  /\ other' = s.other

\* ------------------------------------------------------------ constructor
\* The constructor input: every field optional.
ConfigInput(timeout, retries, retryInterval, retryOnFail, autoParseJSON, apiUrl) ==
  [timeout |-> timeout, retries |-> retries, retryInterval |-> retryInterval,
   retryOnFail |-> retryOnFail, autoParseJSON |-> autoParseJSON, apiUrl |-> apiUrl]

DefaultRetries(v) == IF v = "json" THEN DefaultRetriesJson ELSE DefaultRetriesLegacy

\* constructor(config): `||` for the numbers, `!== undefined` for the flags.
\* Only the "json" class has the autoParseJSON field.
Constructor(v, c) ==
  [timeout |-> OrDefault(c.timeout, DefaultTimeout),
   retries |-> OrDefault(c.retries, DefaultRetries(v)),
   retryInterval |-> OrDefault(c.retryInterval, DefaultRetryInterval),
   retryOnFail |-> Resolve(c.retryOnFail, FALSE),
   autoParseJSON |-> IF v = "json" THEN Resolve(c.autoParseJSON, FALSE) ELSE FALSE,
   apiUrl |-> OrDefaultStr(c.apiUrl, "")]

\* The options object of a call: the per-call overrides.
Options(timeout, retries, retryInterval, retryOnFail, autoParseJSON, apiUrl) ==
  [_timeout |-> timeout, _retries |-> retries, _retryInterval |-> retryInterval,
   _retryOnFail |-> retryOnFail, _autoParseJSON |-> autoParseJSON, _apiUrl |-> apiUrl]
EmptyOptions == Options(None, None, None, None, None, None)

\* ------------------------------------------------------------ idle state
NoCall ==
  [retryOnFail |-> FALSE, autoParseJSON |-> FALSE, retries |-> 0, interval |-> 0,
   i |-> 0, mode |-> "none", timeout |-> 0, optionsDefined |-> TRUE,
   caught |-> NoErr, id |-> 0, signal |-> 0]
NoFold == [chain |-> "none", hidx |-> 0, value |-> NoVal, err |-> NoErr]
NoNet == [timers |-> {}, aborted |-> {}, signal |-> 0, issued |-> 0, base |-> ""]
NoHandlers == [request |-> <<>>, response |-> <<>>]
NoPrev ==
  [n |-> 0, options |-> EmptyOptions, hist |-> <<>>, waits |-> <<>>,
   outcome |-> Pending, issued |-> 0, base |-> 0]
NoOther == [op |-> "none"]

InitFrom(variantSet, configSet) ==
  /\ variant \in variantSet
  /\ \E c \in configSet :
       \* only the Config of the "json" class has an autoParseJSON field
       /\ variant # "json" => c.autoParseJSON = None
       /\ config = Constructor(variant, c)
       /\ given = [config |-> c, options |-> EmptyOptions, handlers |-> NoHandlers]
  /\ prev = NoPrev
  /\ other = NoOther
  /\ handlers = NoHandlers
  /\ op = "none"
  /\ options = EmptyOptions
  /\ pc = "idle"
  /\ call = NoCall
  /\ fold = NoFold
  /\ net = NoNet
  /\ hist = <<>>
  /\ waits = <<>>
  /\ calls = <<>>
  /\ raises = <<>>
  /\ used = NoHandlers
  /\ outcome = Pending

\* ------------------------------------------------------ interceptor chain
\* An entry: f is the fulfilled function (0: none), r says whether a rejected
\* function was given.
Entry(f, r) == [f |-> f, r |-> r]

\* Mutant of Push: an entry equal to one already registered is not added.
PushUnique(h, e) == IF \E k \in 1..Len(h) : h[k] = e THEN h ELSE Append(h, e)

\* use(fulfilled, rejected) / useRequestInterceptor / useResponseInterceptor
Push(h, e) == Append(h, e)

\* A handler invocation, as recorded in `calls`.
Invocation(c, k, phase, fn, e) ==
  [chain |-> c, idx |-> k, phase |-> phase, fn |-> fn, err |-> e]

\* An error raised by a handler, as recorded in `raises`.
Raise(c, k, phase, e) == [chain |-> c, idx |-> k, phase |-> phase, err |-> e]

\* What the fulfilled function fn makes of value v: it marks v as its own.
Transform(fn, v) == [v EXCEPT !.tags = Append(@, fn)]

\* The loop over the handlers: the first entry at or after k that has a
\* fulfilled function, Len(h) + 1 when the loop runs off the end.
RECURSIVE NextIdx(_, _)
NextIdx(h, k) ==
  IF k > Len(h) THEN Len(h) + 1
  ELSE IF h[k].f # 0 THEN k
  ELSE NextIdx(h, k + 1)

\* The scan of request's catch block: the first response interceptor with a
\* rejected function, 0 when there is none.
RECURSIVE ScanFrom(_, _)
ScanFrom(h, k) ==
  IF k > Len(h) THEN 0
  ELSE IF h[k].r THEN k
  ELSE ScanFrom(h, k + 1)
FirstRejected(h) == ScanFrom(h, 1)

\* ------------------------------------------------------- request: the end
\* The promise of the call settles.
Settle(s, o) == [s EXCEPT !.pc = "done", !.outcome = o]

\* The catch block of request. "index" and "json" log and rethrow; "legacy"
\* hands the error to the first response interceptor that has a rejected
\* function and rethrows when there is none.
Catch(s, e) ==
  IF s.variant = "legacy" /\ FirstRejected(s.handlers.response) # 0
  THEN LET k == FirstRejected(s.handlers.response) IN
       [s EXCEPT !.pc = "scan", !.call.caught = e,
                 !.fold = [chain |-> "response", hidx |-> k, value |-> NoVal, err |-> e],
                 !.calls = Append(@, Invocation("response", k, "scan",
                                                s.handlers.response[k].f, e))]
  ELSE Settle([s EXCEPT !.call.caught = e], Rejected(e))

\* Mutant of AutoParse: `options._autoParseJSON || this.autoParseJSON`, a
\* per-call false does not switch an instance-level true off.
AutoParseOr(v, o, c) ==
  v = "json" /\ (IF o._autoParseJSON # None /\ o._autoParseJSON[1]
                 THEN TRUE ELSE c.autoParseJSON)

\* The effective auto-parse flag of request.
AutoParse(v, o, c) == v = "json" /\ Resolve(o._autoParseJSON, c.autoParseJSON)

\* The end of request's try block: the value of the response chain is
\* returned, decoded by response.json() first when auto-parse is on.
Finish(s, v) ==
  IF s.call.autoParseJSON
  THEN IF JsonDecode(v.body) = None
       THEN Catch(s, SyntaxError)
       ELSE Settle(s, Resolved(Decoded(JsonDecode(v.body)[1], v)))
  ELSE Settle(s, Resolved(v))

\* ------------------------------------------------------ fetchWithTimeout
\* Mutant of FetchIssue: a signal found on the options is left there,
\* `options.signal` is not overwritten.
FetchIssueKeepsSignal(s) ==
  LET id == s.net.issued + 1 IN
  [s EXCEPT !.pc = "fetching",
            !.call.timeout = Resolve(s.options._timeout, s.config.timeout),
            !.call.id = id, !.call.signal = s.net.signal,
            !.net = [timers |-> s.net.timers \cup {id}, aborted |-> s.net.aborted,
                     signal |-> s.net.signal, issued |-> id,
                     base |-> Resolve(s.options._apiUrl, s.config.apiUrl)]]

\* Mutant of FetchIssue: the controller is made once and its signal is used
\* again by every later attempt.
FetchIssueSharedController(s) ==
  LET id == s.net.issued + 1 IN
  [s EXCEPT !.pc = "fetching",
            !.call.timeout = Resolve(s.options._timeout, s.config.timeout),
            !.call.id = id, !.call.signal = IF s.net.signal # 0 THEN s.net.signal ELSE id,
            !.net = [timers |-> s.net.timers \cup {id}, aborted |-> s.net.aborted,
                     signal |-> IF s.net.signal # 0 THEN s.net.signal ELSE id,
                     issued |-> id,
                     base |-> Resolve(s.options._apiUrl, s.config.apiUrl)]]

\* Mutant of FetchIssue: no deadline timer is set.
FetchIssueNoTimer(s) ==
  LET id == s.net.issued + 1 IN
  [s EXCEPT !.pc = "fetching",
            !.call.timeout = Resolve(s.options._timeout, s.config.timeout),
            !.call.id = id, !.call.signal = id,
            !.net = [timers |-> s.net.timers, aborted |-> s.net.aborted,
                     signal |-> id, issued |-> id,
                     base |-> Resolve(s.options._apiUrl, s.config.apiUrl)]]

\* The synchronous part of fetchWithTimeout: the timeout is resolved, a new
\* AbortController is made, its deadline timer is set, options.signal is
\* overwritten and fetch is called, which reads the signal off the options
\* there and then. `call.id` is the local `id` (and `controller`),
\* `call.signal` the signal fetch was given.
FetchIssue(s) ==
  LET id == s.net.issued + 1 IN
  [s EXCEPT !.pc = "fetching",
            !.call.timeout = Resolve(s.options._timeout, s.config.timeout),
            !.call.id = id, !.call.signal = id,
            !.net = [timers |-> s.net.timers \cup {id}, aborted |-> s.net.aborted,
                     signal |-> id, issued |-> id,
                     base |-> Resolve(s.options._apiUrl, s.config.apiUrl)]]

\* Mutant of ClearTimeout: the deadline timer is left running.
ClearTimeoutNoop(timers, id) == timers

\* clearTimeout(id)
ClearTimeout(timers, id) == timers \ {id}

\* Mutant of GuardFailure: the catch block rethrows what fetch rejected with.
GuardFailureRethrows(cause) == cause

\* The catch block of fetchWithTimeout: whatever fetch rejected with, a new
\* 'Request timed out' error is thrown.
GuardFailure(cause) == TimedOut

\* -------------------------------------------------------------- retryFetch
\* Mutant of Retryable: a 429 is handed back like any other 4xx.
RetryableServerOnly(status) == status >= 500

\* `status >= 500 || status === 429`
Retryable(status) == status >= 500 \/ status = 429

\* parseInt(...) * 1000; NaN times a number is NaN
TimesMs(n) == IF n = NaN THEN NaN ELSE n * MsPerSecond

\* Mutant of HintedInterval: the interval doubles after every retryable
\* response (an exponential backoff).
HintedIntervalDoubling(interval, resp) ==
  IF resp.status = 429 /\ resp.ra # None THEN TimesMs(ParseInt(resp.ra[1]))
  ELSE interval * 2

\* The interval after a retryable response: a 429 with a Retry-After header
\* overwrites the loop's interval.
HintedInterval(interval, resp) ==
  IF resp.status = 429 /\ resp.ra # None THEN TimesMs(ParseInt(resp.ra[1]))
  ELSE interval

\* The error retryFetch throws for a retryable status.
StatusError(v, status) ==
  IF v = "legacy" /\ status = 429 THEN Err("Rate Limit Exceeded", status)
  ELSE Err("Network response was not ok", status)

\* Mutant of MoreAttempts: `i <= retries`, one wait too many.
MoreAttemptsInclusive(i, retries) == i <= retries

\* `i < retries` in the catch block of the loop
MoreAttempts(i, retries) == i < retries

\* `i <= retries`, the test of the for loop
LoopTest(i, retries) == i <= retries

\* The loop test holds and the next attempt is made, or the loop is left and
\* 'Maximum retries exceeded' is raised.
LoopHead(s) ==
  IF LoopTest(s.call.i, s.call.retries) THEN FetchIssue(s)
  ELSE Catch(s, MaxRetriesExceeded)

\* Mutant of RetryCatch: the next attempt is issued at once, the backoff
\* timer is not awaited.
RetryCatchEager(s, e) ==
  IF MoreAttempts(s.call.i, s.call.retries)
  THEN LoopHead([s EXCEPT !.call.i = @ + 1])
  ELSE Catch(s, e)

\* The catch block of the loop: wait `interval` and go round again, or rethrow.
RetryCatch(s, e) ==
  IF MoreAttempts(s.call.i, s.call.retries)
  THEN [s EXCEPT !.pc = "backoff", !.waits = Append(@, s.call.interval)]
  ELSE Catch(s, e)

\* Mutant of RetryStart: the loop waits the interval before attempt 0 too.
RetryStartWaitsFirst(s) ==
  LET r == Resolve(s.options._retries, s.config.retries)
      iv == Resolve(s.options._retryInterval, s.config.retryInterval)
  IN  [s EXCEPT !.pc = "backoff", !.call.mode = "retry", !.call.retries = r,
                !.call.i = 0 - 1, !.call.interval = iv, !.waits = Append(@, iv)]

\* Mutant of RetryStart: `options._retries || this.retries`, a per-call 0
\* gives way to the instance's retries.
RetryStartTruthy(s) ==
  LET r == OrDefault(s.options._retries, s.config.retries)
      s1 == [s EXCEPT !.call.mode = "retry", !.call.retries = r, !.call.i = 0,
                      !.call.interval = Resolve(s.options._retryInterval,
                                                s.config.retryInterval)]
  IN  LoopHead(s1)

\* The head of retryFetch: retries and interval are resolved, and the loop is
\* entered with i = 0.
RetryStart(s) ==
  LET r == Resolve(s.options._retries, s.config.retries)
      s1 == [s EXCEPT !.call.mode = "retry", !.call.retries = r, !.call.i = 0,
                      !.call.interval = Resolve(s.options._retryInterval,
                                                s.config.retryInterval)]
  IN  LoopHead(s1)

\* Mutant of Dispatch: the flag is read from the options the request chain
\* returned, not taken from the local resolved at entry.
DispatchRereads(s) ==
  IF ~s.call.optionsDefined THEN Catch(s, TypeError)
  ELSE IF Resolve(s.options._retryOnFail, s.config.retryOnFail) THEN RetryStart(s)
  ELSE FetchIssue([s EXCEPT !.call.mode = "single"])

\* request's choice between one attempt and the retry loop. In "legacy" the
\* options may have become undefined (see ChainReturn): reading a field of
\* them is a TypeError, raised inside request's try block.
Dispatch(s) ==
  IF ~s.call.optionsDefined THEN Catch(s, TypeError)
  ELSE IF s.call.retryOnFail THEN RetryStart(s)
  ELSE FetchIssue([s EXCEPT !.call.mode = "single"])

\* ---------------------------------------------------- chain: continuations
\* The fulfilled functions that rewrite `_retryOnFail` on the options they
\* are given, to the opposite of the flag the call was entered with.
Flippers == {9}
Flipped(v) == \E k \in 1..Len(v.tags) : v.tags[k] \in Flippers

\* The options dispatch works on are those the request chain returned.
\* "legacy": `options = await this.applyInterceptors(options, ...)`: what a
\* rejected function returned replaces the options: undefined, or an object
\* (taken to carry no override).
Reassign(s, v) ==
  CASE s.variant = "legacy" /\ v.shape = "undefined" ->
         [s EXCEPT !.call.optionsDefined = FALSE]
    [] s.variant = "legacy" /\ v.shape = "object" -> [s EXCEPT !.options = EmptyOptions]
    [] v.shape = "request" /\ Flipped(v) ->
         [s EXCEPT !.options._retryOnFail = Some(~s.call.retryOnFail)]
    [] OTHER -> s

\* runHandlers / applyInterceptors returned v.
ChainReturn(s, c, v) ==
  LET s1 == [s EXCEPT !.fold = [NoFold EXCEPT !.value = v]] IN
  CASE s.op = "runHandlers" -> Settle(s1, Resolved(v))
    [] s.op = "request" /\ c = "request" -> Dispatch(Reassign(s1, v))
    [] OTHER -> Finish(s1, v)

\* runHandlers / applyInterceptors raised e. The "legacy" request applies the
\* request interceptors before its try block.
ChainThrow(s, c, e) ==
  CASE s.op = "runHandlers" -> Settle(s, Rejected(e))
    [] s.op = "request" /\ c = "request" /\ s.variant = "legacy" -> Settle(s, Rejected(e))
    [] OTHER -> Catch(s, e)

\* The loop reaches entry k of chain c with value v: the fulfilled function of
\* the next entry that has one is called, or the loop is over.
ChainAt(s, c, k, v) ==
  LET h == s.handlers[c]
      j == NextIdx(h, k)
  IN  IF j > Len(h) THEN ChainReturn(s, c, v)
      ELSE [s EXCEPT !.pc = "fulfilled",
                     !.fold = [chain |-> c, hidx |-> j, value |-> v, err |-> NoErr],
                     !.calls = Append(@, Invocation(c, j, "fulfilled", h[j].f, NoErr))]

\* runHandlers(value) / applyInterceptors(value, interceptors)
ChainEnter(s, c, v) == ChainAt(s, c, 1, v)

\* The catch block of the chain's loop, entry k having raised e: its rejected
\* function is called when it has one, else e is rethrown.
ChainCatch(s, c, k, e) ==
  IF s.handlers[c][k].r
  THEN [s EXCEPT !.pc = "rejected", !.fold.err = e,
                 !.calls = Append(@, Invocation(c, k, "rejected", s.handlers[c][k].f, e))]
  ELSE ChainThrow(s, c, e)

\* Mutant of AfterRejected: the error is taken as handled and the loop goes
\* on with the next entry.
AfterRejectedContinues(s, c, x) == ChainAt(s, c, s.fold.hidx + 1, s.fold.value)

\* The rejected function returned x. runHandlers rethrows the error it caught;
\* applyInterceptors takes x as the value and leaves the loop.
AfterRejected(s, c, x) ==
  IF s.variant = "legacy" /\ s.op = "request" THEN ChainReturn(s, c, x)
  ELSE ChainThrow(s, c, s.fold.err)

\* ------------------------------------------------- request: after dispatch
\* `if (!response.ok) throw new Error('Network response was not ok')`:
\* only "legacy" has the check.
OkCheck(v, status) == v = "legacy" /\ ~Ok(status)

\* Dispatch returned a response: the response chain runs over it.
Deliver(s, resp) ==
  IF OkCheck(s.variant, resp.status) THEN Catch(s, NotOk)
  ELSE ChainEnter(s, "response", resp)

\* Mutant of RetryOnResponse: the interval a Retry-After header gives is
\* written to the instance's retryInterval as well.
RetryOnResponseStoresHint(s, resp) ==
  IF ~Ok(resp.status) /\ Retryable(resp.status)
  THEN RetryCatch([s EXCEPT !.call.interval = HintedInterval(@, resp),
                            !.config.retryInterval = HintedInterval(@, resp)],
                  StatusError(s.variant, resp.status))
  ELSE Deliver(s, resp)

\* The body of the retry loop after fetchWithTimeout returned resp.
RetryOnResponse(s, resp) ==
  IF ~Ok(resp.status) /\ Retryable(resp.status)
  THEN RetryCatch([s EXCEPT !.call.interval = HintedInterval(@, resp)],
                  StatusError(s.variant, resp.status))
  ELSE Deliver(s, resp)

\* fetchWithTimeout returned resp / raised e.
AttemptReturned(s, resp) ==
  IF s.call.mode = "retry" THEN RetryOnResponse(s, resp) ELSE Deliver(s, resp)
\* Mutant of AttemptRaised: a thrown failure leaves the retry loop.
AttemptRaisedEndsLoop(s, e) == Catch(s, e)

AttemptRaised(s, e) ==
  IF s.call.mode = "retry" THEN RetryCatch(s, e) ELSE Catch(s, e)

\* The outcome of an attempt, as recorded in `hist`.
Attempt(kind, status, ra) == [kind |-> kind, status |-> status, ra |-> ra]

\* ------------------------------------------------------ request: the entry
\* request(resource, options) up to its first suspension: the flags are
\* resolved from the options as passed and the request chain is entered.
RequestEnter(s, o) ==
  LET s1 == [s EXCEPT !.op = "request", !.options = o, !.given.options = o,
                      !.given.handlers = s.handlers,
                      !.call.retryOnFail = Resolve(o._retryOnFail, s.config.retryOnFail),
                      !.call.autoParseJSON = AutoParse(s.variant, o, s.config)]
  IN  ChainEnter(s1, "request", RequestContext)

\* The instance between two calls: the locals of the call that settled are
\* gone; the instance fields, the interceptors, and the controllers and timers
\* of its attempts stay. `prev` keeps what the call did.
NewCall(s) ==
  [s EXCEPT !.op = "none", !.pc = "idle", !.call = NoCall, !.fold = NoFold,
            !.hist = <<>>, !.waits = <<>>, !.calls = <<>>, !.raises = <<>>,
            !.outcome = Pending,
            !.prev = [n |-> s.prev.n + 1, options |-> s.given.options,
                      hist |-> s.hist, waits |-> s.waits, outcome |-> s.outcome,
                      issued |-> s.net.issued, base |-> s.prev.issued]]

\* ================================================================ actions
\* interceptors.<c>.use(fulfilled, rejected), useRequestInterceptor,
\* useResponseInterceptor: fns are the fulfilled functions on offer, max the
\* number of entries registered at most.
Use(c, fns, max) ==
  /\ pc = "idle"
  /\ Len(handlers[c]) < max
  /\ \E f \in fns \cup {0}, r \in BOOLEAN :
       /\ handlers' = [handlers EXCEPT ![c] = Push(@, Entry(f, r))]
       /\ used' = [used EXCEPT ![c] = Append(@, Entry(f, r))]
  /\ UNCHANGED <<variant, config, op, options, pc, call, fold, net, hist, waits,
                 calls, raises, outcome, given, prev,
                 other>>

\* request(resource, options), the first call on the instance
Request(optionSet) ==
  /\ pc = "idle"
  /\ \E o \in optionSet : Becomes(RequestEnter(Cur, o))

\* A further request(resource, options) on the same instance, made when the
\* call before it has settled.
RequestAgain(optionSet) ==
  /\ pc = "done"
  /\ op = "request"
  /\ prev.n + 1 < MaxCalls
  /\ \E o \in optionSet : Becomes(RequestEnter(NewCall(Cur), o))

\* What belongs to one call and no other: its locals, where it is suspended,
\* what it did so far. `signal` is the signal field of the options object it
\* was given, `shared` says that the other call was given the same object.
Context(s, shared) ==
  [op |-> s.op, options |-> s.options, pc |-> s.pc, call |-> s.call, fold |-> s.fold,
   hist |-> s.hist, waits |-> s.waits, calls |-> s.calls, raises |-> s.raises,
   outcome |-> s.outcome, given |-> s.given, signal |-> s.net.signal,
   shared |-> shared]

\* The call c takes the place of the running one, which is set aside. The
\* instance (its fields, its interceptors), the timers and the controllers
\* are the same for both; so is options.signal when they were given the
\* same options object.
SwitchTo(s, c) ==
  [s EXCEPT !.op = c.op, !.options = c.options, !.pc = c.pc, !.call = c.call,
            !.fold = c.fold, !.hist = c.hist, !.waits = c.waits, !.calls = c.calls,
            !.raises = c.raises, !.outcome = c.outcome, !.given = c.given,
            !.net.signal = IF c.shared THEN @ ELSE c.signal,
            !.other = Context(s, c.shared)]

\* The locals of a call that has just been made.
FreshCall(s, shared) ==
  [op |-> "none", options |-> EmptyOptions, pc |-> "idle", call |-> NoCall,
   fold |-> NoFold, hist |-> <<>>, waits |-> <<>>, calls |-> <<>>, raises |-> <<>>,
   outcome |-> Pending, given |-> s.given, signal |-> 0, shared |-> shared]

\* request(resource, options) called while another call on the instance is
\* suspended, with an options object of its own or with the very object the
\* suspended call was given.
RequestConcurrently(optionSet) ==
  /\ op = "request"
  /\ pc \notin {"idle", "done"}
  /\ other = NoOther
  /\ \E shared \in BOOLEAN :
       \E o \in IF shared THEN {given.options} ELSE optionSet :
         Becomes(RequestEnter(SwitchTo(Cur, FreshCall(Cur, shared)), o))

\* The event loop turns to the other call: the next handler return, response,
\* failure or timer is one of its own.
Resume ==
  /\ other.op = "request"
  /\ other.pc # "done"
  /\ Becomes(SwitchTo(Cur, other))

\* interceptors.<c>.runHandlers(value), called on its own
RunHandlers(c) ==
  /\ pc = "idle"
  /\ variant # "legacy"
  /\ Becomes(ChainEnter([Cur EXCEPT !.op = "runHandlers", !.given.handlers = handlers],
                         c, RequestContext))

\* use(fulfilled, rejected) called by other code while runHandlers is
\* suspended in a handler of the same chain.
UseDuring(c, fns, max) ==
  /\ op = "runHandlers"
  /\ pc \in {"fulfilled", "rejected"}
  /\ fold.chain = c
  /\ Len(handlers[c]) < max
  /\ \E f \in fns \cup {0}, r \in BOOLEAN :
       /\ handlers' = [handlers EXCEPT ![c] = Push(@, Entry(f, r))]
       /\ used' = [used EXCEPT ![c] = Append(@, Entry(f, r))]
  /\ UNCHANGED <<variant, config, op, options, pc, call, fold, net, hist, waits,
                 calls, raises, outcome, given, prev,
                 other>>

\* The fulfilled function of the current entry returns.
FulfilledReturns ==
  /\ pc = "fulfilled"
  /\ LET c == fold.chain
         fn == handlers[c][fold.hidx].f
     IN  Becomes(ChainAt(Cur, c, fold.hidx + 1, Transform(fn, fold.value)))

\* The fulfilled function of the current entry raises.
FulfilledRaises ==
  /\ pc = "fulfilled"
  /\ LET c == fold.chain
         fn == handlers[c][fold.hidx].f
         s == [Cur EXCEPT !.raises = Append(@, Raise(c, fold.hidx, "fulfilled",
                                                     HandlerError(fn)))]
     IN  Becomes(ChainCatch(s, c, fold.hidx, HandlerError(fn)))

\* The rejected function called by the chain returns an object or undefined.
RejectedReturns ==
  /\ pc = "rejected"
  /\ \E kind \in {"object", "undefined"} :
       Becomes(AfterRejected(Cur, fold.chain, Returned(kind, fold.hidx)))

\* The rejected function called by the chain raises an error of its own.
RejectedRaises ==
  /\ pc = "rejected"
  /\ LET s == [Cur EXCEPT !.raises = Append(@, Raise(fold.chain, fold.hidx, "rejected",
                                                   RejectedError(fold.hidx)))]
     IN  Becomes(ChainThrow(s, fold.chain, RejectedError(fold.hidx)))

\* "legacy": the rejected function called by request's catch block returns.
ScanReturns ==
  /\ pc = "scan"
  /\ \E kind \in {"object", "undefined"} :
       Becomes(Settle(Cur, Resolved(Returned(kind, fold.hidx))))

\* "legacy": the rejected function called by request's catch block raises.
ScanRaises ==
  /\ pc = "scan"
  /\ LET s == [Cur EXCEPT !.raises = Append(@, Raise(fold.chain, fold.hidx, "scan",
                                                   RejectedError(fold.hidx)))]
     IN  Becomes(Settle(s, Rejected(RejectedError(fold.hidx))))

\* fetch resolves with a response before the deadline: clearTimeout(id).
TransportRespond(wires) ==
  /\ pc = "fetching"
  /\ \E w \in wires, b \in Bodies :
       LET id == call.id
           s == [Cur EXCEPT !.net.timers = ClearTimeout(@, id),
                            !.hist = Append(@, Attempt("response", w.status, w.ra))]
       IN  Becomes(AttemptReturned(s, ResponseValue(w.status, w.ra, b, id)))

\* fetch rejects for a reason of its own (network failure) before the
\* deadline: the catch block raises 'Request timed out' and does not clear
\* the timer.
TransportFail ==
  /\ pc = "fetching"
  /\ Becomes(AttemptRaised([Cur EXCEPT !.hist = Append(@, Attempt("failed", 0, None))],
                           GuardFailure(NetworkError)))

\* The deadline timer of the attempt in flight fires: controller.abort(),
\* fetch rejects and the catch block raises 'Request timed out'.
TimeoutAbort ==
  /\ pc = "fetching"
  /\ call.id \in net.timers
  /\ LET id == call.id
         s == [Cur EXCEPT !.net.timers = @ \ {id}, !.net.aborted = @ \cup {id},
                          !.hist = Append(@, Attempt("aborted", 0, None))]
     IN  Becomes(AttemptRaised(s, GuardFailure(AbortError)))

\* The deadline timer of an attempt that is over fires: controller.abort()
\* on a controller whose fetch has settled.
StaleTimerFire ==
  /\ \E id \in net.timers :
       /\ ~(pc = "fetching" /\ id = call.id)
       /\ ~(other.op = "request" /\ other.pc = "fetching" /\ id = other.call.id)
       /\ net' = [net EXCEPT !.timers = @ \ {id}, !.aborted = @ \cup {id}]
  /\ UNCHANGED <<variant, config, handlers, op, options, pc, call, fold, hist,
                 waits, calls, raises, used, outcome, given, prev,
                 other>>

\* The caller aborts a controller of their own (controller 0), whose signal
\* they put on the options they pass to request.
CallerAbort ==
  /\ 0 \notin net.aborted
  /\ net' = [net EXCEPT !.aborted = @ \cup {0}]
  /\ UNCHANGED <<variant, config, handlers, op, options, pc, call, fold, hist,
                 waits, calls, raises, used, outcome, given, prev,
                 other>>

\* The backoff timer fires: i++, and the next attempt is issued.
BackoffElapsed ==
  /\ pc = "backoff"
  /\ Becomes(LoopHead([Cur EXCEPT !.call.i = @ + 1]))

\* ========================================================= specifications
\* Spec: the whole pipeline, interceptors included, at most one retry.
PipelineConfigs ==
  {ConfigInput(None, Some(1), None, rof, ap, None) : rof \in {None, Some(TRUE)},
                                              ap \in {None, Some(TRUE)}}
PipelineOptions ==
  {Options(None, None, None, rof, ap, None) : rof \in {None, Some(TRUE), Some(FALSE)},
                                        ap \in {None, Some(FALSE)}}

Init == InitFrom(Variants, PipelineConfigs)

Next ==
  \/ Use("request", {1}, MaxRequestHandlers)
  \/ Use("response", {1}, MaxResponseHandlers)
  \/ Request(PipelineOptions)
  \/ FulfilledReturns
  \/ FulfilledRaises
  \/ RejectedReturns
  \/ RejectedRaises
  \/ ScanReturns
  \/ ScanRaises
  \/ TransportRespond(FewWireResponses)
  \/ TransportFail
  \/ TimeoutAbort
  \/ StaleTimerFire
  \/ BackoffElapsed

Spec == Init /\ [][Next]_vars

\* SpecRetry: the dispatch of request, no interceptor registered, every
\* retries value up to MaxRetries and the class defaults.
RetriesInputs == {None} \cup {Some(n) : n \in 0..MaxRetries}
RetryConfigs ==
  {ConfigInput(None, r, iv, rof, None, None) :
     r \in RetriesInputs, iv \in {None, Some(50)}, rof \in {None, Some(TRUE)}}
RetryOptions ==
  {Options(None, r, iv, rof, None, None) :
     r \in RetriesInputs, iv \in {None, Some(70)}, rof \in BoolInputs}

InitRetry == InitFrom(Variants, RetryConfigs)

NextRetry ==
  \/ Request(RetryOptions)
  \/ TransportRespond(WireResponses)
  \/ TransportFail
  \/ TimeoutAbort
  \/ StaleTimerFire
  \/ BackoffElapsed

SpecRetry == InitRetry /\ [][NextRetry]_vars

\* SpecChain: one InterceptorManager on its own, use() and runHandlers().
InitChain == InitFrom({"index"}, {ConfigInput(None, None, None, None, None, None)})

NextChain ==
  \/ Use("request", 1..NumFns, MaxChainHandlers)
  \/ RunHandlers("request")
  \/ FulfilledReturns
  \/ FulfilledRaises
  \/ RejectedReturns
  \/ RejectedRaises

SpecChain == InitChain /\ [][NextChain]_vars

\* SpecCalls: MaxCalls successive request calls on one instance, with and
\* without per-call overrides, falsy ones among them; no interceptor.
CallConfigs ==
  {ConfigInput(None, None, None, None, None, None),
   ConfigInput(Some(30), Some(1), Some(50), Some(TRUE), None, Some("/api"))}
CallOptions ==
  {EmptyOptions,
   Options(Some(0), Some(0), Some(0), Some(FALSE), None, Some("")),
   Options(Some(0), Some(1), Some(0), Some(TRUE), None, Some("")),
   Options(Some(80), Some(0), Some(70), Some(TRUE), None, Some("/v2"))}
CallWireResponses == {Wire(200, None), Wire(429, Some(<<"2">>)), Wire(500, None)}

InitCalls == InitFrom(Variants, CallConfigs)

NextCalls ==
  \/ Request(CallOptions)
  \/ RequestAgain(CallOptions)
  \/ TransportRespond(CallWireResponses)
  \/ TransportFail
  \/ TimeoutAbort
  \/ StaleTimerFire
  \/ BackoffElapsed

SpecCalls == InitCalls /\ [][NextCalls]_vars

\* SpecMode: request with request interceptors, among them one that rewrites
\* `_retryOnFail` on the options.
ModeConfigs ==
  {ConfigInput(None, Some(1), None, rof, None, None) : rof \in {None, Some(TRUE)}}
ModeOptions == {Options(None, None, None, rof, None, None) : rof \in BoolInputs}

InitMode == InitFrom(Variants, ModeConfigs)

NextMode ==
  \/ Use("request", {1} \cup Flippers, MaxRequestHandlers)
  \/ Request(ModeOptions)
  \/ FulfilledReturns
  \/ FulfilledRaises
  \/ RejectedReturns
  \/ RejectedRaises
  \/ TransportRespond(FewWireResponses)
  \/ TransportFail
  \/ TimeoutAbort
  \/ StaleTimerFire
  \/ BackoffElapsed

SpecMode == InitMode /\ [][NextMode]_vars

\* SpecSignal: request on options that carry a signal of the caller's, which
\* the caller may abort at any time.
InitSignal == InitFrom(Variants, ModeConfigs)

NextSignal ==
  \/ Request(ModeOptions)
  \/ CallerAbort
  \/ TransportRespond(FewWireResponses)
  \/ TransportFail
  \/ TimeoutAbort
  \/ StaleTimerFire
  \/ BackoffElapsed

SpecSignal == InitSignal /\ [][NextSignal]_vars

\* SpecBudget: the retry loop on per-call retries around zero, a negative
\* value among them.
BudgetOptions ==
  {Options(None, Some(r), None, Some(TRUE), None, None) : r \in {0 - 1, 0, 1}}

InitBudget == InitFrom(Variants, ModeConfigs)

NextBudget ==
  \/ Request(BudgetOptions)
  \/ TransportRespond(FewWireResponses)
  \/ TransportFail
  \/ TimeoutAbort
  \/ StaleTimerFire
  \/ BackoffElapsed

SpecBudget == InitBudget /\ [][NextBudget]_vars

\* SpecChainUse: one InterceptorManager, with use() called also while
\* runHandlers is suspended in a handler.
NextChainUse ==
  \/ Use("request", 1..NumFns, MaxChainHandlers)
  \/ UseDuring("request", 1..NumFns, MaxChainHandlers)
  \/ RunHandlers("request")
  \/ FulfilledReturns
  \/ FulfilledRaises
  \/ RejectedReturns
  \/ RejectedRaises

SpecChainUse == InitChain /\ [][NextChainUse]_vars

\* SpecLive: the whole pipeline under the scheduling the runtime gives: a
\* handler that was called returns or raises, a timer that was set fires
\* (the deadline timer aborts the fetch in flight, which then rejects; the
\* backoff timer resumes the loop). Nothing is assumed of the transport
\* answering by itself. Either chain holds up to MaxRequestHandlers entries.
InitLive == InitFrom(Variants, ModeConfigs)

NextLive ==
  \/ Use("request", {1}, MaxRequestHandlers)
  \/ Use("response", {1}, MaxRequestHandlers)
  \/ Request({EmptyOptions})
  \/ FulfilledReturns
  \/ FulfilledRaises
  \/ RejectedReturns
  \/ RejectedRaises
  \/ ScanReturns
  \/ ScanRaises
  \/ TransportRespond(FewWireResponses)
  \/ TransportFail
  \/ TimeoutAbort
  \/ BackoffElapsed

\* Every handler that was called returns or raises (one handler runs at a
\* time, so one condition covers the three places handlers are called from).
HandlersTerminate ==
  WF_vars(FulfilledReturns \/ FulfilledRaises \/ RejectedReturns \/ RejectedRaises
            \/ ScanReturns \/ ScanRaises)

\* Every timer that was set fires: the deadline timer of the attempt in
\* flight, after which the aborted fetch rejects, and the backoff timer.
TimersFire == WF_vars(TimeoutAbort \/ BackoffElapsed)

SpecLive == InitLive /\ [][NextLive]_vars /\ HandlersTerminate /\ TimersFire

\* SpecConcurrent: two request calls on one instance, the second made while
\* the first is suspended, their steps interleaved in every order.
ConcurrentConfigs == {ConfigInput(None, Some(1), Some(50), Some(TRUE), None, None)}
ConcurrentOptions ==
  {EmptyOptions, Options(None, Some(0), Some(70), None, None, None)}
ConcurrentWireResponses == {Wire(200, None), Wire(429, Some(<<"2">>))}

InitConcurrent == InitFrom(Variants, ConcurrentConfigs)

NextConcurrent ==
  \/ Use("request", {1}, MaxRequestHandlers)
  \/ Request(ConcurrentOptions)
  \/ RequestConcurrently(ConcurrentOptions)
  \/ Resume
  \/ FulfilledReturns
  \/ FulfilledRaises
  \/ RejectedReturns
  \/ RejectedRaises
  \/ TransportRespond(ConcurrentWireResponses)
  \/ TransportFail
  \/ TimeoutAbort
  \/ BackoffElapsed

SpecConcurrent == InitConcurrent /\ [][NextConcurrent]_vars

\* ================================================================= claims
\* The settings of the call in progress, resolved from the options object and
\* the instance fields.
ResolvedRetries == Resolve(options._retries, config.retries)
ResolvedInterval == Resolve(options._retryInterval, config.retryInterval)
RetryEnabled == Resolve(options._retryOnFail, config.retryOnFail)

\* An attempt that ended in a thrown failure / in a retryable outcome.
Thrown(a) == a.kind \in {"failed", "aborted"}
RetryableOutcome(a) ==
  Thrown(a) \/ (a.kind = "response" /\ (a.status >= 500 \/ a.status = 429))
\* An attempt answered by a 429 that carries a Retry-After header.
Hinted(a) == a.kind = "response" /\ a.status = 429 /\ a.ra # None
AllDigits(str) == str # <<>> /\ \A k \in 1..Len(str) : IsDigit(str[k])

\* C1: with retry enabled and resolved retries n >= 0, as long as every
\* attempt ends in a thrown failure, at most n+1 attempts are issued and the
\* call never resolves; the call settles exactly when n+1 attempts have
\* failed, and it settles rejected with the failure of the last attempt.
C1_AllAttemptsFail ==
  (op = "request" /\ RetryEnabled /\ ResolvedRetries >= 0
     /\ \A k \in 1..Len(hist) : Thrown(hist[k]))
  => /\ net.issued <= ResolvedRetries + 1
     /\ outcome.kind # "resolved"
     /\ (pc = "done") <=> (Len(hist) = ResolvedRetries + 1)
     /\ pc = "done" => (net.issued = ResolvedRetries + 1 /\ outcome = Rejected(TimedOut))

C1_Witness ==
  /\ pc = "done" /\ op = "request" /\ RetryEnabled
  /\ ResolvedRetries = MaxRetries
  /\ Len(hist) = MaxRetries + 1
  /\ \A k \in 1..Len(hist) : Thrown(hist[k])
  /\ \E k \in 1..Len(hist) : hist[k].kind = "failed"
  /\ \E k \in 1..Len(hist) : hist[k].kind = "aborted"
  /\ outcome.kind = "rejected"

\* C3 (as claimed): the wait after a 429 with Retry-After: s is s*1000 ms
\* whatever the retry interval, and the wait after a 429 or 5xx without that
\* header is the resolved retry interval.
C3_WaitFollowsHintElseInterval ==
  (op = "request" /\ call.mode = "retry")
  => \A k \in 1..Len(waits) :
       /\ (Hinted(hist[k]) /\ AllDigits(hist[k].ra[1]))
            => waits[k] = ParseInt(hist[k].ra[1]) * 1000
       /\ (hist[k].kind = "response" /\ RetryableOutcome(hist[k]) /\ hist[k].ra = None)
            => waits[k] = ResolvedInterval

\* C4 (as claimed): the hint is used for one wait only: after a 429 with
\* Retry-After, a failed attempt without the header is followed by a wait of
\* the resolved retry interval.
C4_HintNotSticky ==
  (op = "request" /\ call.mode = "retry")
  => \A k \in 1..Len(waits) :
       (k > 1 /\ Hinted(hist[k - 1]) /\ RetryableOutcome(hist[k]) /\ hist[k].ra = None)
         => waits[k] = ResolvedInterval

\* C9: with retry enabled, once an attempt returns an ok response after k
\* retryable outcomes, the call is settled: k+1 attempts were issued, k waits
\* were made (each of the resolved retry interval when no 429 carried a
\* Retry-After header), and the call resolved with the response of that
\* attempt.
C9_RetryThenOk ==
  (op = "request" /\ RetryEnabled /\ hist # <<>>
     /\ hist[Len(hist)].kind = "response" /\ Ok(hist[Len(hist)].status))
  => /\ pc = "done"
     /\ net.issued = Len(hist)
     /\ Len(hist) <= ResolvedRetries + 1
     /\ Len(waits) = Len(hist) - 1
     /\ \A k \in 1..(Len(hist) - 1) : RetryableOutcome(hist[k])
     /\ (\A k \in 1..Len(hist) : ~Hinted(hist[k]))
          => \A k \in 1..Len(waits) : waits[k] = ResolvedInterval
     /\ outcome.kind = "resolved"
     /\ outcome.val.shape = "response"
     /\ outcome.val.att = Len(hist)
     /\ outcome.val.status = hist[Len(hist)].status

C9_Witness ==
  /\ pc = "done" /\ op = "request" /\ RetryEnabled
  /\ ResolvedRetries = 2 /\ ResolvedInterval = 50
  /\ Len(hist) = 3
  /\ hist[1].kind = "response" /\ hist[1].status = 503
  /\ hist[2].kind = "response" /\ hist[2].status = 500
  /\ hist[3].kind = "response" /\ hist[3].status = 200
  /\ waits = <<50, 50>>
  /\ outcome.kind = "resolved" /\ outcome.val.status = 200

\* The fulfilled functions of a list of entries, in order.
RECURSIVE Fns(_)
Fns(h) ==
  IF h = <<>> THEN <<>>
  ELSE (IF Head(h).f # 0 THEN <<Head(h).f>> ELSE <<>>) \o Fns(Tail(h))

\* The invocations of one phase, in order.
CallsOf(phase) == SelectSeq(calls, LAMBDA x : x.phase = phase)

\* The first entry with a rejected function among those passed to use().
FirstUsedRejected(c) ==
  IF \E k \in 1..Len(used[c]) : used[c][k].r
  THEN CHOOSE k \in 1..Len(used[c]) :
         used[c][k].r /\ \A j \in 1..(k - 1) : ~used[c][j].r
  ELSE 0

\* A value put in the place of the call's result by a rejected function.
Substituted(o) == o.kind = "resolved" /\ o.val.shape \in {"object", "undefined"}

\* C2 (as claimed): a response that is neither ok nor retryable is the only
\* attempt of its call, no wait follows it, and the call does not resolve: it
\* rejects with the not-ok failure.
C2_NotOkResponseFails ==
  (op = "request" /\ hist # <<>> /\ hist[1].kind = "response"
     /\ ~Ok(hist[1].status) /\ ~RetryableOutcome(hist[1]))
  => /\ net.issued = 1
     /\ waits = <<>>
     /\ outcome.kind # "resolved"
     /\ pc = "done" => outcome = Rejected(NotOk)

\* C5: the list of a chain is the entries passed to use(), in call order, none
\* dropped, merged or moved; runHandlers calls the fulfilled functions one at
\* a time in that order, each on the value the previous one returned, and
\* when none raises it resolves with the value the last one returned.
C5_RegistrationOrder ==
  /\ handlers = used
  /\ op = "runHandlers" =>
       LET done == CallsOf("fulfilled")
           fns == Fns(used.request)
       IN  /\ Len(done) <= Len(fns)
           /\ \A j \in 1..Len(done) : done[j].fn = fns[j]
           /\ pc = "fulfilled" => fold.value.tags = SubSeq(fns, 1, Len(done) - 1)
           /\ (pc = "done" /\ raises = <<>>) =>
                outcome = Resolved([RequestContext EXCEPT !.tags = fns])

C5_Witness ==
  /\ op = "runHandlers" /\ pc = "done"
  /\ Len(used.request) = 3
  /\ used.request[1] = used.request[2]
  /\ used.request[1].f = 2 /\ used.request[3].f = 1
  /\ outcome.kind = "resolved"
  /\ outcome.val.tags = <<2, 2, 1>>

\* C6 (as claimed): when the fulfilled function of an entry raises e, the
\* rejected function of that entry, if there is one, is called with e, and
\* runHandlers fails with e whatever the rejected function does.
C6_ChainRethrowsOriginal ==
  (op = "runHandlers" /\ raises # <<>>)
  => LET e == raises[1].err
         k == raises[1].idx
     IN  /\ raises[1].phase = "fulfilled"
         /\ used.request[k].r =>
              \E j \in 1..Len(calls) :
                calls[j].phase = "rejected" /\ calls[j].idx = k /\ calls[j].err = e
         /\ pc = "done" => outcome = Rejected(e)

\* C7 (as claimed): when dispatch, the not-ok check or the response chain
\* fails with e, request calls the rejected function of the first response
\* interceptor that has one, with e, and no other; a value it returns
\* resolves the call, an error it raises rejects the call, and without such
\* an interceptor the call rejects with e.
C7_ErrorFunnel ==
  (op = "request" /\ pc = "done" /\ call.caught # NoErr /\ call.caught # SyntaxError
     /\ \A j \in 1..Len(raises) : raises[j].chain # "request")
  => LET e == call.caught
         k == FirstUsedRejected("response")
         scans == CallsOf("scan")
     IN  IF k = 0 THEN scans = <<>> /\ outcome = Rejected(e)
         ELSE /\ Len(scans) = 1
              /\ scans[1].idx = k /\ scans[1].err = e
              /\ \/ Substituted(outcome) /\ outcome.val.att = k
                 \/ outcome = Rejected(RejectedError(k))

\* C8 (as claimed): when the fulfilled function of a request interceptor
\* raises e and a response interceptor with a rejected function is
\* registered, that function is called with e, and the call rejects with e
\* unless the function puts a value in its place.
C8_RequestFailureReachesResponseHook ==
  (op = "request" /\ pc = "done" /\ FirstUsedRejected("response") # 0
     /\ \E j \in 1..Len(raises) :
          raises[j].chain = "request" /\ raises[j].phase = "fulfilled")
  => LET j == CHOOSE j \in 1..Len(raises) :
                raises[j].chain = "request" /\ raises[j].phase = "fulfilled"
         e == raises[j].err
     IN  /\ \E n \in 1..Len(calls) :
              /\ calls[n].chain = "response"
              /\ calls[n].phase \in {"rejected", "scan"}
              /\ calls[n].err = e
         /\ outcome = Rejected(e) \/ Substituted(outcome)

\* C10: in the class with autoParseJSON, once the response chain has returned
\* a response, the call settles by the flag `_autoParseJSON if present, else
\* the instance's autoParseJSON`: on, it resolves with the decoded body of
\* that response (and rejects when the body is no JSON); off, it resolves
\* with that response itself.
EffectiveAutoParse == Resolve(options._autoParseJSON, config.autoParseJSON)
ChainReturnedResponse == fold.chain = "none" /\ fold.value.shape = "response"

C10_AutoParse ==
  (variant = "json" /\ op = "request" /\ pc = "done" /\ ChainReturnedResponse)
  => LET v == fold.value IN
     /\ v.tags = Fns(used.response)
     /\ v.att = net.issued
     /\ IF EffectiveAutoParse
        THEN IF v.body = "{\"a\":1}"
             THEN outcome = Resolved([v EXCEPT !.shape = "decoded", !.body = "object a=1"])
             ELSE outcome = Rejected(SyntaxError)
        ELSE outcome = Resolved(v)

C10_Witness ==
  /\ variant = "json" /\ op = "request" /\ pc = "done"
  /\ config.autoParseJSON /\ options._autoParseJSON = None
  /\ Len(used.response) = 1 /\ used.response[1].f = 1
  /\ outcome.kind = "resolved"
  /\ outcome.val.shape = "decoded"
  /\ outcome.val.body = "object a=1"
  /\ outcome.val.status = 200
  /\ outcome.val.tags = <<1>>

\* ------------------------------------------------------------------- C11
IsPrefix(a, b) == Len(a) <= Len(b) /\ \A k \in 1..Len(a) : a[k] = b[k]

\* An outcome with the attempt that gave its response counted from the
\* call's first attempt.
Relative(o, base) ==
  IF o.val.shape = "response" THEN [o EXCEPT !.val.att = @ - base] ELSE o

\* The transport answers the call in progress as it answered the call before:
\* the same outcome attempt by attempt, the same body in the response handed
\* back.
SameTransport ==
  /\ IsPrefix(hist, prev.hist)
  /\ (outcome.kind = "resolved" /\ prev.outcome.kind = "resolved")
       => outcome.val.body = prev.outcome.val.body

\* C11: a call made with the options of the call before it, and answered by
\* the transport as that call was, does what that call did: it makes no
\* attempt and no wait the first call did not make, it settles exactly when
\* the first call's attempts are used up, with the same waits and the same
\* value or failure.
C11_RepeatableCall ==
  (prev.n >= 1 /\ op = "request" /\ given.options = prev.options /\ SameTransport)
  => /\ IsPrefix(waits, prev.waits)
     /\ net.issued - prev.issued <= Len(prev.hist)
     /\ (pc = "done") <=> (hist = prev.hist)
     /\ pc = "done" =>
          /\ waits = prev.waits
          /\ Relative(outcome, prev.issued) = Relative(prev.outcome, prev.base)

C11_Witness ==
  /\ prev.n = 1 /\ op = "request" /\ pc = "done"
  /\ given.options = prev.options
  /\ given.options = EmptyOptions
  /\ hist = prev.hist /\ Len(hist) = 2
  /\ hist[1].kind = "failed" /\ Hinted(hist[2])
  /\ waits = <<50>> /\ prev.waits = <<50>>
  /\ 1 \in net.aborted /\ 3 \in net.timers
  /\ net.issued = 4
  /\ outcome.kind = "rejected" /\ outcome = prev.outcome

\* ------------------------------------------------------------------- C12
\* The controller and timer of the k-th attempt of the call in progress.
AttemptId(k) == prev.issued + k

\* C12: an attempt runs under a deadline of `_timeout if present, else the
\* instance's timeout`; an attempt the deadline ended has its signal aborted
\* and fails with 'Request timed out'; an attempt that returned a response
\* has its timer cancelled and its signal is never aborted, and the response
\* is what the attempt hands back.
C12_TimeoutGuard ==
  op = "request"
  => /\ pc = "fetching" =>
          /\ call.timeout = Resolve(given.options._timeout, config.timeout)
          /\ net.issued \in net.timers
          /\ net.issued \notin net.aborted
     /\ \A k \in 1..Len(hist) :
          /\ hist[k].kind = "aborted" =>
               /\ AttemptId(k) \in net.aborted
               /\ AttemptId(k) \notin net.timers
          /\ hist[k].kind = "response" =>
               /\ AttemptId(k) \notin net.timers
               /\ AttemptId(k) \notin net.aborted
     /\ (pc = "done" /\ hist # <<>> /\ hist[Len(hist)].kind = "aborted")
          => outcome = Rejected(TimedOut)
     /\ (pc = "done" /\ hist # <<>> /\ hist[Len(hist)].kind = "response"
           /\ Ok(hist[Len(hist)].status))
          => /\ outcome.kind = "resolved"
             /\ outcome.val.shape = "response"
             /\ outcome.val.att = AttemptId(Len(hist))
             /\ outcome.val.status = hist[Len(hist)].status

C12_Witness ==
  /\ op = "request" /\ pc = "done"
  /\ given.options._timeout = Some(0) /\ config.timeout = 30
  /\ call.timeout = 0
  /\ Len(hist) = 2
  /\ hist[1].kind = "aborted" /\ AttemptId(1) \in net.aborted
  /\ hist[2].kind = "response" /\ hist[2].status = 200
  /\ AttemptId(2) \notin net.timers /\ AttemptId(2) \notin net.aborted
  /\ outcome.kind = "resolved" /\ outcome.val.att = AttemptId(2)

\* ------------------------------------------------------------------- C13
\* The setting in force: the value on the options when there is one, whatever
\* it is, else the instance's.
Effective(x, d) == IF x = None THEN d ELSE x[1]

\* C13: timeout, retries, retry interval, retry-on-fail and base address of a
\* call are the values on its options where present (0, false and "" too)
\* and the instance's where absent; no call changes the instance's fields,
\* so a call without overrides made after one with overrides runs on the
\* instance's values.
C13_PerCallOverrides ==
  LET o == given.options IN
  /\ config = Constructor(variant, given.config)
  /\ op = "request" =>
       /\ (call.mode = "retry") <=> Effective(o._retryOnFail, config.retryOnFail)
       /\ net.issued > prev.issued =>
            /\ call.timeout = Effective(o._timeout, config.timeout)
            /\ net.base = Effective(o._apiUrl, config.apiUrl)
       /\ call.mode = "retry" =>
            /\ call.retries = Effective(o._retries, config.retries)
            /\ net.issued - prev.issued <= Effective(o._retries, config.retries) + 1
            /\ (waits # <<>> /\ ~Hinted(hist[1]))
                 => waits[1] = Effective(o._retryInterval, config.retryInterval)
            /\ (pc = "done" /\ \A k \in 1..Len(hist) : Thrown(hist[k]))
                 => Len(hist) = Effective(o._retries, config.retries) + 1

C13_Witness ==
  /\ prev.n = 1 /\ op = "request" /\ pc = "backoff"
  /\ prev.options = Options(Some(0), Some(1), Some(0), Some(TRUE), None, Some(""))
  /\ Len(prev.hist) = 2 /\ prev.waits = <<0>>
  /\ given.options = EmptyOptions
  /\ given.config.retryInterval = Some(50)
  /\ call.timeout = 30 /\ call.retries = 1 /\ net.base = "/api"
  /\ Len(hist) = 1 /\ waits = <<50>>

\* ------------------------------------------------------------------- C14
\* C14 (as claimed): every value supplied to the constructor, retries = 0
\* included, is the instance's value, and the built-in value stands only for
\* an absent field; so an instance built with retries: 0 and retryOnFail:
\* true makes one attempt per call that does not override them.
C14_SuppliedValueIsDefault ==
  LET c == given.config IN
  /\ c.timeout # None => config.timeout = c.timeout[1]
  /\ c.retries # None => config.retries = c.retries[1]
  /\ c.retryInterval # None => config.retryInterval = c.retryInterval[1]
  /\ c.retryOnFail # None => config.retryOnFail = c.retryOnFail[1]
  /\ c.timeout = None => config.timeout = 5000
  /\ c.retryInterval = None => config.retryInterval = 1000
  /\ c.retryOnFail = None => config.retryOnFail = FALSE
  /\ c.apiUrl = None => config.apiUrl = ""
  /\ (op = "request" /\ c.retries = Some(0) /\ c.retryOnFail = Some(TRUE)
        /\ given.options._retries = None /\ given.options._retryOnFail = None)
       => net.issued <= 1 /\ waits = <<>>

\* ------------------------------------------------------------------- C15
\* The retry-enabled flag of the options as passed to request.
FlagAtEntry == Effective(given.options._retryOnFail, config.retryOnFail)

\* C15: the mode of a call is fixed by the flag resolved from the options as
\* passed, before the request interceptors run. Flag false: one attempt at
\* most, no wait, whatever the attempt's outcome. Flag true: the retry loop,
\* which waits after a retryable first outcome when retries allow. A request
\* interceptor that rewrites `_retryOnFail` changes neither.
C15_ModeChosenAtEntry ==
  op = "request"
  => /\ call.mode # "none" => ((call.mode = "retry") <=> FlagAtEntry)
     /\ net.issued > 0 => call.mode # "none"
     /\ ~FlagAtEntry =>
          /\ net.issued <= 1
          /\ waits = <<>>
          /\ hist # <<>> => pc \notin {"fetching", "backoff"}
     /\ (FlagAtEntry /\ hist # <<>> /\ RetryableOutcome(hist[1]) /\ call.retries >= 1)
          => waits # <<>>

C15_Witness ==
  /\ op = "request" /\ pc = "done"
  /\ given.options._retryOnFail = Some(FALSE)
  /\ config.retryOnFail
  /\ options._retryOnFail = Some(TRUE)
  /\ \E j \in 1..Len(calls) : calls[j].chain = "request" /\ calls[j].fn \in Flippers
  /\ call.mode = "single"
  /\ Len(hist) = 1 /\ hist[1].kind = "response" /\ hist[1].status = 503
  /\ net.issued = 1

\* ------------------------------------------------------------------- C16
\* The failure an attempt ended in: the timeout failure for a thrown one, the
\* status failure carrying its status for a 5xx or 429 response.
FailureOf(a) ==
  IF Thrown(a) THEN {TimedOut}
  ELSE {Err("Network response was not ok", a.status),
        Err("Rate Limit Exceeded", a.status)}

\* C16: the retry loop hands back no response with status >= 500 or 429: a
\* call in retry mode resolves only with a response of another status, and
\* every attempt before the last ended in a retryable outcome; when the last
\* attempt ends in a retryable outcome it is attempt number retries, and the
\* call fails with the failure of that attempt.
C16_LoopNeverReturnsRetryable ==
  (op = "request" /\ call.mode = "retry")
  => /\ outcome.kind = "resolved" =>
          /\ outcome.val.shape = "response"
          /\ ~(outcome.val.status >= 500 \/ outcome.val.status = 429)
          /\ outcome.val.status = hist[Len(hist)].status
     /\ \A k \in 1..(Len(hist) - 1) : RetryableOutcome(hist[k])
     /\ (pc = "done" /\ hist # <<>> /\ RetryableOutcome(hist[Len(hist)]))
          => /\ Len(hist) = call.retries + 1
             /\ outcome.kind = "rejected"
             /\ outcome.err \in FailureOf(hist[Len(hist)])

C16_Witness ==
  /\ op = "request" /\ call.mode = "retry" /\ pc = "done"
  /\ call.retries = MaxRetries
  /\ Len(hist) = MaxRetries + 1
  /\ hist[1].kind = "response" /\ hist[1].status = 500
  /\ hist[Len(hist) - 1].kind = "aborted"
  /\ hist[Len(hist)].kind = "response" /\ hist[Len(hist)].status = 503
  /\ outcome.kind = "rejected" /\ outcome.err.n = 503

\* ------------------------------------------------------------------- C17
\* The attempts of the call in progress that were issued and have not ended.
InFlight == net.issued - prev.issued - Len(hist)

\* C17: at most one attempt of a call is in flight, and only while the call
\* waits for the transport; in the retry loop an attempt is in flight only
\* when every attempt before it has ended and been followed by a backoff wait
\* that has elapsed, and during a backoff wait none is in flight.
C17_OneAttemptInFlight ==
  op = "request"
  => /\ InFlight \in {0, 1}
     /\ (InFlight = 1) <=> (pc = "fetching")
     /\ call.mode = "retry" =>
          /\ pc = "fetching" => Len(waits) = Len(hist)
          /\ pc = "backoff" => (InFlight = 0 /\ Len(waits) = Len(hist))
          /\ Len(waits) <= Len(hist)

C17_Witness ==
  /\ op = "request" /\ call.mode = "retry" /\ pc = "fetching"
  /\ Len(hist) = 2
  /\ hist[1].kind = "aborted"
  /\ hist[2].kind = "response" /\ hist[2].status = 500
  /\ Len(waits) = 2
  /\ net.issued = 3 /\ InFlight = 1

\* ------------------------------------------------------------------- C18
\* The interval in force after the k-th attempt: the one the latest 429 with
\* a Retry-After header gave, else the resolved retry interval.
RECURSIVE CurrentInterval(_)
CurrentInterval(k) ==
  IF k = 0 THEN ResolvedInterval
  ELSE IF Hinted(hist[k]) THEN TimesMs(ParseInt(hist[k].ra[1]))
  ELSE CurrentInterval(k - 1)

AbortKeepsLoop ==
  (op = "request" /\ call.mode = "retry")
  => /\ \A k \in 1..Len(hist) :
          (hist[k].kind = "aborted" /\ k <= call.retries)
            => /\ Len(waits) >= k
               /\ waits[k] = CurrentInterval(k)
               /\ Len(hist) = k =>
                    \/ pc = "backoff"
                    \/ pc = "fetching" /\ net.issued = AttemptId(k + 1)
     /\ (pc = "done" /\ hist # <<>>)
          => \/ hist[Len(hist)].kind = "response" /\ ~RetryableOutcome(hist[Len(hist)])
             \/ Len(hist) = call.retries + 1

BackoffLeadsToAttempt ==
  (call.mode = "retry" /\ pc = "backoff" /\ pc' # "backoff")
  => (pc' = "fetching" /\ net'.issued = net.issued + 1 /\ hist' = hist)

\* C18: in the retry loop an attempt ended by its deadline before attempt
\* number retries is followed by a wait of the interval in force, and the
\* wait ends in the next attempt being issued; the call settles only on a
\* response that is not retryable or when attempt number retries has failed.
C18_TimeoutDoesNotEndLoop == []AbortKeepsLoop /\ [][BackoffLeadsToAttempt]_vars

C18_Witness ==
  /\ op = "request" /\ call.mode = "retry" /\ pc = "done"
  /\ call.retries = MaxRetries
  /\ Len(hist) = MaxRetries + 1
  /\ \A k \in 1..Len(hist) : hist[k].kind = "aborted"
  /\ Len(waits) = MaxRetries
  /\ net.aborted = 1..(MaxRetries + 1)
  /\ outcome = Rejected(TimedOut)

\* ------------------------------------------------------------------- C19
\* The signal on the options is that of the latest attempt's own controller,
\* and while that attempt is in flight the signal is not aborted and its
\* deadline timer runs, whatever became of the controllers before it.
SignalIsFresh ==
  /\ net.signal = net.issued
  /\ net.timers \subseteq 1..net.issued
  /\ net.aborted \subseteq 1..net.issued
  /\ pc = "fetching" => (net.issued \notin net.aborted /\ net.issued \in net.timers)

\* A timer that fires aborts the one controller it was set for; when that is
\* not the attempt in flight, the attempt in flight goes on untouched.
TimerAbortsOwnSignal ==
  \A id \in net'.aborted \ net.aborted :
    /\ id \in net.timers
    /\ net'.timers = net.timers \ {id}
    /\ net'.aborted = net.aborted \cup {id}
    /\ (pc = "fetching" /\ id # net.issued)
         => (pc' = "fetching" /\ net'.issued = net.issued /\ hist' = hist
             /\ net'.signal = net.signal /\ outcome' = outcome)

\* C19: every attempt is issued on a signal of its own that is not aborted,
\* also after earlier attempts were aborted; a deadline timer, fired during
\* or after its attempt, aborts that attempt's signal only and leaves a
\* later attempt in flight alone.
C19_FreshSignalPerAttempt == []SignalIsFresh /\ [][TimerAbortsOwnSignal]_vars

C19_Witness ==
  /\ op = "request" /\ call.mode = "retry" /\ pc = "fetching"
  /\ Len(hist) = 2
  /\ hist[1].kind = "aborted" /\ hist[2].kind = "failed"
  /\ net.aborted = {1, 2}
  /\ net.issued = 3 /\ net.signal = 3
  /\ net.timers = {3}

\* ------------------------------------------------------------------- C20
\* The attempts the call in progress has issued.
Attempts == net.issued - prev.issued

\* C20: in the retry loop no wait is made before the first attempt; while an
\* attempt is in flight and once the call has settled, the waits number one
\* less than the attempts; during a wait they number the same; each wait is
\* of the interval in force after the attempt it follows; and no wait follows
\* the failure of attempt number retries.
C20_BackoffPlacement ==
  (op = "request" /\ call.mode = "retry")
  => /\ hist = <<>> => waits = <<>>
     /\ pc \in {"fetching", "done"} => Len(waits) = Attempts - 1
     /\ pc = "backoff" => Len(waits) = Attempts
     /\ \A k \in 1..Len(waits) : waits[k] = CurrentInterval(k)
     /\ Len(waits) <= call.retries
     /\ (pc = "done" /\ RetryableOutcome(hist[Len(hist)]))
          => (Len(hist) = call.retries + 1 /\ Len(waits) = call.retries)

C20_Witness ==
  /\ op = "request" /\ call.mode = "retry" /\ pc = "done"
  /\ call.retries = MaxRetries
  /\ Attempts = MaxRetries + 1
  /\ Len(waits) = MaxRetries
  /\ hist[1].kind = "response" /\ hist[1].status = 500
  /\ \A k \in 1..Len(waits) : waits[k] = 70
  /\ hist[Len(hist)].kind = "failed"
  /\ outcome = Rejected(TimedOut)

\* ------------------------------------------------------------------- C21
\* The fulfilled function of a request interceptor has raised.
RequestChainFailed ==
  \E j \in 1..Len(raises) : raises[j].chain = "request" /\ raises[j].phase = "fulfilled"

\* C21 (as claimed): once the fulfilled function of a request interceptor
\* has raised, the call issues no attempt and starts no timer, calls no
\* fulfilled function of a response interceptor, and ends in failure.
C21_RequestFailureStopsCall ==
  (op = "request" /\ RequestChainFailed)
  => /\ net.issued = 0
     /\ net.timers = {}
     /\ hist = <<>>
     /\ \A j \in 1..Len(calls) :
          ~(calls[j].chain = "response" /\ calls[j].phase = "fulfilled")
     /\ pc = "done" => outcome.kind = "rejected"

\* ------------------------------------------------------------------- C22
\* C22 (as claimed): the fulfilled function of a response interceptor is
\* called only on a call whose dispatch handed back an ok response; a
\* response that is not ok never reaches the response chain.
C22_ResponseChainSeesOkOnly ==
  op = "request"
  => \A j \in 1..Len(calls) :
       (calls[j].chain = "response" /\ calls[j].phase = "fulfilled")
         => /\ hist # <<>>
            /\ hist[Len(hist)].kind = "response"
            /\ Ok(hist[Len(hist)].status)

\* ------------------------------------------------------------------- C23
\* C23: an attempt whose transport call failed, by the deadline's abort or by
\* itself, fails with 'Request timed out': that is what a call ending on
\* such an attempt rejects with, what fetch rejected with is in no outcome,
\* and the retry loop follows both kinds of failure with the same wait.
C23_FailuresSurfaceAsTimeout ==
  op = "request"
  => /\ (pc = "done" /\ hist # <<>> /\ Thrown(hist[Len(hist)]))
          => outcome = Rejected(TimedOut)
     /\ outcome.err \notin {AbortError, NetworkError}
     /\ call.mode = "retry" =>
          \A k \in 1..Len(hist) :
            (Thrown(hist[k]) /\ k <= call.retries)
              => (Len(waits) >= k /\ waits[k] = CurrentInterval(k))

C23_Witness ==
  /\ op = "request" /\ call.mode = "retry" /\ pc = "done"
  /\ call.retries = 1
  /\ Len(hist) = 2
  /\ hist[1].kind = "failed" /\ hist[2].kind = "aborted"
  /\ 1 \in net.timers
  /\ waits = <<ResolvedInterval>>
  /\ outcome = Rejected(TimedOut)

\* ------------------------------------------------------------------- C24
\* The signal on the options is the caller's (controller 0) only until the
\* first attempt; an attempt in flight runs on its own signal, every abort of
\* an attempt is that of its own controller, and once the call has settled
\* the options carry the signal of its last attempt.
SignalOverwritten ==
  op = "request"
  => /\ pc = "fetching" =>
          (net.signal = net.issued /\ net.signal # 0 /\ net.signal \notin net.aborted)
     /\ \A k \in 1..Len(hist) : hist[k].kind = "aborted" => AttemptId(k) \in net.aborted
     /\ (pc = "done" /\ hist # <<>>) => net.signal = AttemptId(Len(hist))

\* The caller's abort changes nothing of the call.
CallerAbortIgnored ==
  (0 \in net'.aborted /\ 0 \notin net.aborted)
  => /\ UNCHANGED <<pc, call, hist, waits, outcome, options>>
     /\ net'.signal = net.signal /\ net'.timers = net.timers /\ net'.issued = net.issued

\* C24: a signal the caller put on the options never cancels an attempt:
\* each attempt overwrites options.signal with its own before the transport
\* is called, the deadline is the only source of cancellation, and after the
\* call the options carry the last attempt's signal.
C24_CallerSignalOverwritten == []SignalOverwritten /\ [][CallerAbortIgnored]_vars

C24_Witness ==
  /\ op = "request" /\ pc = "done"
  /\ 0 \in net.aborted
  /\ Len(hist) = 2
  /\ hist[1].kind = "aborted"
  /\ hist[2].kind = "response" /\ hist[2].status = 200
  /\ net.aborted = {0, 1}
  /\ net.signal = 2
  /\ outcome.kind = "resolved"

\* ------------------------------------------------------------------- C27
\* C27 (as claimed): the deadline timer of an attempt that has ended, by a
\* response or by a failure of any kind, is no longer pending; a call that
\* has settled leaves no timer behind.
C27_NoTimerOutlivesAttempt ==
  op = "request"
  => /\ \A k \in 1..Len(hist) : AttemptId(k) \notin net.timers
     /\ pc = "done" => net.timers = {}

\* ------------------------------------------------------------------- C28
\* C28 (as claimed): for every resolved retries value, a negative one
\* included, the retry loop makes at least one attempt, and it ends by
\* handing back a response or by raising the failure of its last attempt,
\* never by 'Maximum retries exceeded'.
C28_AtLeastOneAttempt ==
  (op = "request" /\ call.mode = "retry")
  => /\ net.issued >= 1
     /\ outcome.err # MaxRetriesExceeded
     /\ pc = "done" =>
          /\ hist # <<>>
          /\ \/ hist[Len(hist)].kind = "response" /\ ~RetryableOutcome(hist[Len(hist)])
             \/ outcome.kind = "rejected" /\ outcome.err \in FailureOf(hist[Len(hist)])

\* ------------------------------------------------------------------- C30
\* The errors raised by fulfilled functions, in order.
FulfilledRaised == SelectSeq(raises, LAMBDA x : x.phase = "fulfilled")

\* C30: runHandlers ends at the first entry whose fulfilled function raises:
\* of the entries after it nothing is called, of the entries before it no
\* rejected function is called, and its own rejected function is called once
\* at most. An entry without a fulfilled function is passed over: none of
\* its functions is called and the value is what the entries with one made
\* of it.
C30_StopsAtFirstFailure ==
  op = "runHandlers"
  => /\ Len(FulfilledRaised) <= 1
     /\ Len(CallsOf("rejected")) <= Len(FulfilledRaised)
     /\ \A n \in 1..Len(calls) : handlers.request[calls[n].idx].f # 0
     /\ FulfilledRaised # <<>> =>
          LET j == FulfilledRaised[1].idx IN
          /\ \A n \in 1..Len(calls) : calls[n].idx <= j
          /\ \A n \in 1..Len(calls) : calls[n].phase = "rejected" => calls[n].idx = j
          /\ pc \in {"rejected", "done"}
          /\ pc = "done" => outcome.kind = "rejected"
     /\ pc = "fulfilled" =>
          fold.value.tags = Fns(SubSeq(handlers.request, 1, fold.hidx - 1))

C30_Witness ==
  /\ op = "runHandlers" /\ pc = "done"
  /\ Len(handlers.request) = 3
  /\ handlers.request[1] = Entry(0, TRUE)
  /\ handlers.request[2].r /\ handlers.request[3].r
  /\ Len(calls) = 2
  /\ calls[1].phase = "fulfilled" /\ calls[1].idx = 2
  /\ calls[2].phase = "rejected" /\ calls[2].idx = 2
  /\ outcome.kind = "rejected"

\* ------------------------------------------------------------------- C29
\* C29 (as claimed): runHandlers works on the handler list as it stood when
\* it was called: only entries of that list are called, and when none
\* raises, the value it resolves with is what the fulfilled functions of
\* that list made of it; an entry added while it is suspended is left to
\* later invocations.
C29_HandlersFixedAtStart ==
  op = "runHandlers"
  => /\ \A n \in 1..Len(calls) : calls[n].idx <= Len(given.handlers.request)
     /\ (pc = "done" /\ raises = <<>>)
          => outcome = Resolved([RequestContext EXCEPT !.tags = Fns(given.handlers.request)])

\* ------------------------------------------------------------------- C26
\* The call has settled: request has resolved or rejected.
CallSettled == op = "request" /\ pc = "done" /\ outcome.kind \in {"resolved", "rejected"}

\* C26: when every handler terminates and every timer fires, a request call
\* that was made settles; meanwhile the attempt index stays within the
\* resolved retries and counts the attempts that are over.
C26_Termination ==
  /\ [](op = "request" => <>CallSettled)
  /\ [](op = "request" /\ call.mode = "retry" /\ pc \in {"fetching", "backoff"}
          => call.i = Len(hist) - (IF pc = "backoff" THEN 1 ELSE 0) /\ call.i <= call.retries)

\* A call in retry mode has rejected after every attempt was aborted by its
\* deadline.
C26_Witness ==
  /\ CallSettled
  /\ call.mode = "retry"
  /\ Len(hist) = call.retries + 1
  /\ \A k \in 1..Len(hist) : hist[k].kind = "aborted"
  /\ Len(waits) = call.retries
  /\ outcome.kind = "rejected"

\* ------------------------------------------------------------------- C25
\* The calls made on the instance that have not been forgotten: the running
\* one and the one set aside.
BothCalls ==
  IF other.op = "request" THEN {Context(Cur, other.shared), other} ELSE {}

\* What a call's retries and interval resolve to, from the options its own
\* request chain handed on and the config the instance was constructed with.
OwnRetries(c) ==
  Resolve(c.options._retries, Constructor(variant, c.given.config).retries)
OwnInterval(c) ==
  Resolve(c.options._retryInterval, Constructor(variant, c.given.config).retryInterval)

\* The interval of call c after its first k attempts: the resolved one, or
\* what the last Retry-After header among its own attempts said.
RECURSIVE IntervalAfter(_, _)
IntervalAfter(c, k) ==
  IF k = 0 THEN OwnInterval(c)
  ELSE IF Hinted(c.hist[k]) THEN TimesMs(ParseInt(c.hist[k].ra[1]))
  ELSE IntervalAfter(c, k - 1)

\* Call c went by its own settings and its own attempts alone.
OnItsOwn(c) ==
  c.call.mode = "retry"
  => /\ c.call.retries = OwnRetries(c)
     /\ Len(c.hist) <= OwnRetries(c) + 1
     /\ c.pc \in {"fetching", "backoff"} =>
          c.call.i = Len(c.hist) - (IF c.pc = "backoff" THEN 1 ELSE 0)
     /\ Len(c.waits) = Len(c.hist) - (IF c.pc \in {"fetching", "backoff"} THEN 0 ELSE 1)
     /\ \A k \in 1..Len(c.waits) :
          RetryableOutcome(c.hist[k]) /\ c.waits[k] = IntervalAfter(c, k)
     /\ c.pc = "fetching" =>
          /\ c.call.signal = c.call.id
          /\ c.call.id \in net.timers
          /\ c.call.id \notin net.aborted
     /\ (c.pc = "done" /\ c.hist # <<>>) =>
          LET last == c.hist[Len(c.hist)] IN
          IF RetryableOutcome(last)
          THEN /\ Len(c.hist) = OwnRetries(c) + 1
               /\ c.outcome.kind = "rejected"
               /\ c.outcome.err \in FailureOf(last)
          ELSE c.outcome.kind = "resolved"
                 => (c.outcome.val.status = last.status /\ c.outcome.val.att = c.call.id)

\* C25: of two request calls in progress on one instance, each keeps to its
\* own resolved retries and interval and to its own attempts: its attempt
\* index counts its own attempts, its waits follow its own interval and the
\* Retry-After headers of its own responses, the attempt it has in flight
\* has a controller and a pending deadline timer of its own, not aborted,
\* and it ends when its own attempts are used up or one of them is
\* answered; whatever the other call met, and whether or not the two were
\* given the same options object.
C25_CallsIndependent ==
  /\ \A c \in BothCalls : OnItsOwn(c)
  /\ (other.op = "request" /\ other.pc = "fetching" /\ pc = "fetching")
       => (call.id # other.call.id /\ call.signal # other.call.signal)

\* Two calls given the same options object have settled: the one was told
\* to wait 2 s by a 429 and was then answered, the other, begun during that
\* wait, had both its attempts aborted by their deadlines and waited its own
\* 50 ms between them.
C25_Witness ==
  /\ other.op = "request" /\ other.shared
  /\ pc = "done" /\ other.pc = "done"
  /\ other.call.mode = "retry" /\ call.mode = "retry"
  /\ Len(other.hist) = 2 /\ Hinted(other.hist[1])
  /\ other.waits = <<2000>>
  /\ other.outcome.kind = "resolved"
  /\ Len(hist) = 2
  /\ hist[1].kind = "aborted" /\ hist[2].kind = "aborted"
  /\ waits = <<50>>
  /\ outcome = Rejected(TimedOut)
  /\ call.id = 3 /\ other.call.id = 4

====
